---- MODULE Spec2Model ----
(***************************************************************************)
(* Model of the UnrealFloodingScripts batch pipelines:                     *)
(*   add_time_to_niwa.py   - timestamp derivation and CSV header retrofit  *)
(*   create_water_csv.py   - nearest-cell sampling, re-centring, export    *)
(*   spawn_water.py        - read_water_sources_csv                        *)
(*                                                                         *)
(* Text is modelled with TLA+ strings; a CSV file is the sequence of its   *)
(* lines (without line terminator).  Fields of the modelled inputs contain *)
(* no quote, comma or newline characters, so csv.reader is a split on ","  *)
(* and csv.writer a join with ",".                                         *)
(***************************************************************************)
EXTENDS Integers, Sequences, FiniteSets, TLC

VARIABLES
    pc,                 \* position of the running script
    error,              \* exception that ended the run ("" while none)
    \* ---- add_time_to_niwa.py
    csv_file,           \* content of the CSV file on disk: sequence of lines
    original,           \* content of the CSV file when the run began
    header,             \* first row returned by csv.reader
    remaining_data,     \* list(csv_reader): the rows after the header
    new_header,         \* xc, yc, zc, *time_columns
    written,            \* number of rows of remaining_data written so far
    band_indices,       \* argument of generate_time_stamps_from_band_indices
    reference_datetime, \* argument of generate_time_stamps_from_band_indices
    time_columns,       \* value returned by generate_time_stamps_from_band_indices
    \* ---- create_water_csv.py
    LOCK_TO_GRID,       \* module setting: snap points to the raster cells
    gauge_points,       \* table read by get_gauge_points
    points_crs,         \* CRS of gauge_points (kept by the tables derived from it)
    model_output,       \* the opened flood model dataset
    unreal_origin_location, \* centroid of the level bounds file
    bounds_crs,         \* CRS of the level bounds file
    point_depths,       \* table built inside extract_depths_for_points
    sampled,            \* number of rows apply() has handed to the per-point function
    gauge_depths,       \* table returned by extract_depths_for_points
    gauge_depths_unreal, \* table returned by transform_gdf_to_unreal_coordinates
    out_csv,            \* the output file: whether it exists, and its lines
    \* ---- spawn_water.py
    spawn_csv,          \* lines of the CSV handed to read_water_sources_csv
    spawn_times,        \* time_columns parsed from the header
    rows_read,          \* number of data rows consumed from csv_reader
    water_sources       \* the list being built

niwaVars == <<csv_file, original, header, remaining_data, new_header, written>>
stampVars == <<band_indices, reference_datetime, time_columns>>
waterInputs == <<LOCK_TO_GRID, gauge_points, points_crs, model_output,
                 unreal_origin_location, bounds_crs>>
waterVars == <<waterInputs, point_depths, sampled, gauge_depths, gauge_depths_unreal,
               out_csv>>
spawnVars == <<spawn_csv, spawn_times, rows_read, water_sources>>
vars == <<pc, error, niwaVars, stampVars, waterVars, spawnVars>>

----------------------------------------------------------------------------
(* Bounds of the model                                                     *)

MaxBands == 2        \* longest list of band indices handed to the generator
MaxRows == 2         \* most data rows of a CSV file
MaxPoints == 2       \* most gauge points of a points file

----------------------------------------------------------------------------
(* Generic helpers                                                         *)

SeqsUpTo(S, n) == UNION {[1..k -> S] : k \in 0..n}

Char(s, i) == SubSeq(s, i, i)

IsDigit(c) == c \in {"0", "1", "2", "3", "4", "5", "6", "7", "8", "9"}

DigitChar(d) == Char("0123456789", d + 1)

DigitVal(c) == CHOOSE d \in 0..9 : DigitChar(d) = c

AllDigits(s) == Len(s) > 0 /\ \A i \in 1..Len(s) : IsDigit(Char(s, i))

RECURSIVE DigitsVal(_)
DigitsVal(s) ==
    IF Len(s) = 0 THEN 0
    ELSE 10 * DigitsVal(SubSeq(s, 1, Len(s) - 1)) + DigitVal(Char(s, Len(s)))

RECURSIVE NatStr(_)
NatStr(n) == IF n < 10 THEN DigitChar(n) ELSE NatStr(n \div 10) \o DigitChar(n % 10)

RECURSIVE ZeroPad(_, _)
ZeroPad(s, width) == IF Len(s) >= width THEN s ELSE ZeroPad("0" \o s, width)

----------------------------------------------------------------------------
(* datetime: the proleptic Gregorian calendar arithmetic behind            *)
(* reference_datetime + timedelta(hours=...) and strftime                  *)

DateTime(y, mo, d, h, mi, s, us) ==
    [year |-> y, month |-> mo, day |-> d, hour |-> h, minute |-> mi,
     second |-> s, microsecond |-> us]

IsLeap(y) == y % 4 = 0 /\ (y % 100 # 0 \/ y % 400 = 0)

DaysInMonth(y, m) ==
    IF m = 2 THEN (IF IsLeap(y) THEN 29 ELSE 28)
    ELSE IF m \in {4, 6, 9, 11} THEN 30 ELSE 31

RECURSIVE DaysBeforeMonth(_, _)
DaysBeforeMonth(y, m) ==
    IF m = 1 THEN 0 ELSE DaysBeforeMonth(y, m - 1) + DaysInMonth(y, m - 1)

DaysBeforeYear(y) ==
    (y - 1) * 365 + (y - 1) \div 4 - (y - 1) \div 100 + (y - 1) \div 400

\* date.toordinal(): 1 for 0001-01-01
Ymd2Ord(y, m, d) == DaysBeforeYear(y) + DaysBeforeMonth(y, m) + d

\* date.fromordinal(): the 400/100/4/1-year cycle decomposition
Ord2Ymd(ordinal) ==
    LET n0 == ordinal - 1
        n400 == n0 \div 146097
        r400 == n0 % 146097
        n100 == r400 \div 36524
        r100 == r400 % 36524
        n4 == r100 \div 1461
        r4 == r100 % 1461
        n1 == r4 \div 365
        n == r4 % 365
        year == n400 * 400 + 1 + n100 * 100 + n4 * 4 + n1
    IN  IF n1 = 4 \/ n100 = 4
        THEN [year |-> year - 1, month |-> 12, day |-> 31]
        ELSE LET leapyear == n1 = 3 /\ (n4 # 24 \/ n100 = 3)
                 guess == (n + 50) \div 32
                 before(m) == DaysBeforeMonth(2001, m)
                                + (IF m > 2 /\ leapyear THEN 1 ELSE 0)
                 month == IF before(guess) > n THEN guess - 1 ELSE guess
             IN  [year |-> year, month |-> month, day |-> n - before(month) + 1]

\* datetime.__add__(timedelta(hours=hours)): days and seconds are normalised
\* separately (floor division), microseconds are untouched by whole hours
AddHours(dt, hours) ==
    LET secs == dt.hour * 3600 + dt.minute * 60 + dt.second + hours * 3600
        days == Ymd2Ord(dt.year, dt.month, dt.day) + secs \div 86400
        sod == secs % 86400
        ymd == Ord2Ymd(days)
    IN  DateTime(ymd.year, ymd.month, ymd.day,
                 sod \div 3600, (sod % 3600) \div 60, sod % 60, dt.microsecond)

\* new_datetime.strftime("%Y-%m-%dT%H:%M:%S.%f"), for the years 1000 to 9999
\* (%Y of an earlier year is platform-dependent)
Strftime(dt) ==
    ZeroPad(NatStr(dt.year), 4) \o "-" \o ZeroPad(NatStr(dt.month), 2) \o "-"
      \o ZeroPad(NatStr(dt.day), 2) \o "T" \o ZeroPad(NatStr(dt.hour), 2) \o ":"
      \o ZeroPad(NatStr(dt.minute), 2) \o ":" \o ZeroPad(NatStr(dt.second), 2)
      \o "." \o ZeroPad(NatStr(dt.microsecond), 6)

\* the default value of reference_datetime: datetime.datetime(2000, 1, 1)
DefaultReference == DateTime(2000, 1, 1, 0, 0, 0, 0)

\* faulty variant of the loop body: the band index taken as the hour offset itself
FormattedTimeNoOffset(band_index, reference) ==
    Strftime(AddHours(reference, band_index))

\* the body of the loop over band_indices
FormattedTime(band_index, reference) ==
    LET hours_since_reference_dt == band_index - 1
        new_datetime == AddHours(reference, hours_since_reference_dt)
    IN  Strftime(new_datetime)

\* generate_time_stamps_from_band_indices
generate_time_stamps_from_band_indices(indices, reference) ==
    [i \in 1..Len(indices) |-> FormattedTime(indices[i], reference)]

----------------------------------------------------------------------------
(* Inputs of the timestamp generator                                       *)

\* band indices around the day, month, leap-day and year boundaries of 2000
BandValues == {-23, 0, 1, 2, 25, 745, 1417, 1441, 8785}

Epochs ==
    {DefaultReference,
     DateTime(1999, 12, 31, 23, 30, 15, 250),
     DateTime(1900, 2, 28, 12, 0, 0, 0),
     DateTime(2023, 7, 14, 6, 45, 59, 999999)}

\* the retrofit script is not running
NiwaIdle ==
    /\ csv_file = <<>>
    /\ original = <<>>
    /\ header = <<>>
    /\ remaining_data = <<>>
    /\ new_header = <<>>
    /\ written = 0

NoTable == [columns |-> <<>>, rows |-> <<>>]

NoFile == [exists |-> FALSE, lines |-> <<>>]

\* the sampling script is not running
WaterIdle ==
    /\ LOCK_TO_GRID = FALSE
    /\ gauge_points = NoTable
    /\ points_crs = ""
    /\ model_output = <<>>
    /\ unreal_origin_location = <<>>
    /\ bounds_crs = ""
    /\ point_depths = NoTable
    /\ sampled = 0
    /\ gauge_depths = NoTable
    /\ gauge_depths_unreal = NoTable
    /\ out_csv = NoFile

\* the spawning script is not running
SpawnIdle ==
    /\ spawn_csv = <<>>
    /\ spawn_times = <<>>
    /\ rows_read = 0
    /\ water_sources = <<>>

StampInit ==
    /\ pc = "call"
    /\ error = ""
    /\ band_indices \in SeqsUpTo(BandValues, MaxBands)
    /\ reference_datetime \in Epochs
    /\ time_columns = <<>>
    /\ NiwaIdle
    /\ WaterIdle
    /\ SpawnIdle

CallGenerate ==
    /\ pc = "call"
    /\ time_columns' = generate_time_stamps_from_band_indices(band_indices, reference_datetime)
    /\ pc' = "returned"
    /\ UNCHANGED <<error, niwaVars, band_indices, reference_datetime, waterVars, spawnVars>>

StampNext == CallGenerate

SpecStamps == StampInit /\ [][StampNext]_vars

----------------------------------------------------------------------------
(* csv.reader / csv.writer on lines whose fields need no quoting           *)

CommaAt(s) == {i \in 1..Len(s) : Char(s, i) = ","}

FirstComma(s) == CHOOSE i \in CommaAt(s) : \A j \in CommaAt(s) : i <= j

RECURSIVE SplitFields(_)
SplitFields(s) ==
    IF CommaAt(s) = {} THEN <<s>>
    ELSE <<SubSeq(s, 1, FirstComma(s) - 1)>>
           \o SplitFields(SubSeq(s, FirstComma(s) + 1, Len(s)))

\* one row of csv.reader: a blank line is the empty list
CsvReadRow(line) == IF Len(line) = 0 THEN <<>> ELSE SplitFields(line)

RECURSIVE JoinFields(_)
JoinFields(fields) ==
    IF Len(fields) = 0 THEN ""
    ELSE IF Len(fields) = 1 THEN fields[1]
    ELSE fields[1] \o "," \o JoinFields(Tail(fields))

\* writer.writerow: a lone empty field is written quoted
CsvWriteRow(fields) ==
    IF Len(fields) = 1 /\ Len(fields[1]) = 0 THEN "\"\"" ELSE JoinFields(fields)

\* int(text) for an optional sign followed by decimal digits
IsIntText(s) ==
    /\ Len(s) > 0
    /\ IF Char(s, 1) \in {"-", "+"} THEN AllDigits(SubSeq(s, 2, Len(s)))
       ELSE AllDigits(s)

ParseInt(s) ==
    IF Char(s, 1) = "-" THEN 0 - DigitsVal(SubSeq(s, 2, Len(s)))
    ELSE IF Char(s, 1) = "+" THEN DigitsVal(SubSeq(s, 2, Len(s)))
    ELSE DigitsVal(s)

\* float(text) for a decimal text with at most one fractional digit
IsFloatText(s) ==
    LET body == IF Len(s) > 0 /\ Char(s, 1) \in {"-", "+"} THEN SubSeq(s, 2, Len(s)) ELSE s
        dots == {i \in 1..Len(body) : Char(body, i) = "."}
    IN  \/ AllDigits(body)
        \/ /\ Cardinality(dots) = 1
           /\ \E d \in dots : /\ d = Len(body) - 1
                              /\ AllDigits(SubSeq(body, 1, d - 1))
                              /\ IsDigit(Char(body, Len(body)))

ParseFloat(s) ==
    LET neg == Char(s, 1) = "-"
        body == IF Char(s, 1) \in {"-", "+"} THEN SubSeq(s, 2, Len(s)) ELSE s
        dots == {i \in 1..Len(body) : Char(body, i) = "."}
        magnitude == IF dots = {} THEN 10 * DigitsVal(body)
                     ELSE 10 * DigitsVal(SubSeq(body, 1, Len(body) - 2))
                            + DigitVal(Char(body, Len(body)))
    IN  IF neg THEN 0 - magnitude ELSE magnitude

----------------------------------------------------------------------------
(* add_timestamps_to_csv                                                   *)

\* faulty variant of list(csv_reader): the first data row is consumed and lost
ReadRemainingSkipFirst(lines) ==
    [i \in 1..(Len(lines) - 2) |-> CsvReadRow(lines[i + 2])]

\* remaining_data = list(csv_reader), after next(csv_reader) took the header
ReadRemaining(lines) ==
    [i \in 1..(Len(lines) - 1) |-> CsvReadRow(lines[i + 1])]

\* band_indices = [int(band_index) for band_index in band_index_strs]
BandIndexStrs(row) == SubSeq(row, 4, Len(row))

\* new_header = xc, yc, zc, *time_columns
NewHeader(row, columns) == SubSeq(row, 1, 3) \o columns

\* next(csv_reader) on an empty file
ReadEmptyFile ==
    /\ pc = "start"
    /\ Len(csv_file) = 0
    /\ pc' = "failed"
    /\ error' = "StopIteration"
    /\ UNCHANGED <<niwaVars, stampVars, waterVars, spawnVars>>

\* xc, yc, zc, *band_index_strs = next(csv_reader) with fewer than 3 fields
ReadShortHeader ==
    /\ pc = "start"
    /\ Len(csv_file) > 0
    /\ Len(CsvReadRow(csv_file[1])) < 3
    /\ pc' = "failed"
    /\ error' = "ValueError"
    /\ UNCHANGED <<niwaVars, stampVars, waterVars, spawnVars>>

\* the first with-block: the whole file is read into memory
ReadCsv ==
    /\ pc = "start"
    /\ Len(csv_file) > 0
    /\ Len(CsvReadRow(csv_file[1])) >= 3
    /\ header' = CsvReadRow(csv_file[1])
    /\ remaining_data' = ReadRemaining(csv_file)
    /\ pc' = "read"
    /\ UNCHANGED <<error, csv_file, original, new_header, written, stampVars, waterVars, spawnVars>>

\* int(band_index) raises on a header field that is no integer
PrepareBadBandIndex ==
    /\ pc = "read"
    /\ \E k \in 1..Len(BandIndexStrs(header)) : ~IsIntText(BandIndexStrs(header)[k])
    /\ pc' = "failed"
    /\ error' = "ValueError"
    /\ UNCHANGED <<niwaVars, stampVars, waterVars, spawnVars>>

\* "Prepare new header"
PrepareHeader ==
    /\ pc = "read"
    /\ \A k \in 1..Len(BandIndexStrs(header)) : IsIntText(BandIndexStrs(header)[k])
    /\ LET strs == BandIndexStrs(header)
           indices == [k \in 1..Len(strs) |-> ParseInt(strs[k])]
           columns == generate_time_stamps_from_band_indices(indices, DefaultReference)
       IN  /\ band_indices' = indices
           /\ reference_datetime' = DefaultReference
           /\ time_columns' = columns
           /\ new_header' = NewHeader(header, columns)
    /\ pc' = "prepared"
    /\ UNCHANGED <<error, csv_file, original, header, remaining_data, written, waterVars,
                   spawnVars>>

\* open(csv_file, "w", newline=""): the file is truncated
OpenForWrite ==
    /\ pc = "prepared"
    /\ csv_file' = <<>>
    /\ pc' = "opened"
    /\ UNCHANGED <<error, original, header, remaining_data, new_header, written, stampVars, waterVars, spawnVars>>

\* writer.writerow(new_header)
WriteHeader ==
    /\ pc = "opened"
    /\ csv_file' = <<CsvWriteRow(new_header)>>
    /\ written' = 0
    /\ pc' = "writing"
    /\ UNCHANGED <<error, original, header, remaining_data, new_header, stampVars, waterVars, spawnVars>>

\* writer.writerows(remaining_data), one row
WriteRow ==
    /\ pc = "writing"
    /\ written < Len(remaining_data)
    /\ csv_file' = Append(csv_file, CsvWriteRow(remaining_data[written + 1]))
    /\ written' = written + 1
    /\ UNCHANGED <<pc, error, original, header, remaining_data, new_header, stampVars, waterVars, spawnVars>>

\* the second with-block ends: the file is closed
CloseCsv ==
    /\ pc = "writing"
    /\ written = Len(remaining_data)
    /\ pc' = "done"
    /\ UNCHANGED <<error, niwaVars, stampVars, waterVars, spawnVars>>

\* a write raises OSError (or the process is interrupted) inside the
\* second with-block; nothing restores the file
WriteFails ==
    /\ pc \in {"opened", "writing"}
    /\ pc' = "aborted"
    /\ error' = "OSError"
    /\ UNCHANGED <<niwaVars, stampVars, waterVars, spawnVars>>

HeaderLines ==
    {"x,y,z,1,2", "x,y,z,25", "x,y,z", "x,y", "x,y,z,1,abc", "lon,lat,elev,745,-23"}

DataLines ==
    {"1.5,-2.5,10.0,0.1,0.2", "3.0,4.0,5.0,0.3", "", "7.0,8.0,9.0,0.0,0.4,0.5"}

CsvFiles ==
    {<<>>} \cup {<<h>> \o rows : h \in HeaderLines, rows \in SeqsUpTo(DataLines, MaxRows)}

NiwaInit ==
    /\ pc = "start"
    /\ error = ""
    /\ csv_file \in CsvFiles
    /\ original = csv_file
    /\ header = <<>>
    /\ remaining_data = <<>>
    /\ new_header = <<>>
    /\ written = 0
    /\ band_indices = <<>>
    /\ reference_datetime = DefaultReference
    /\ time_columns = <<>>
    /\ WaterIdle
    /\ SpawnIdle

NiwaNext ==
    \/ ReadEmptyFile
    \/ ReadShortHeader
    \/ ReadCsv
    \/ PrepareBadBandIndex
    \/ PrepareHeader
    \/ OpenForWrite
    \/ WriteHeader
    \/ WriteRow
    \/ CloseCsv
    \/ WriteFails

SpecNiwa == NiwaInit /\ [][NiwaNext]_vars

----------------------------------------------------------------------------
(* create_water_csv.py.  Floating-point values are fixed-point numbers,    *)
(* counted in tenths: 15 stands for 1.5.  A table (GeoDataFrame) is its    *)
(* list of column names and its list of rows, a row mapping each column    *)
(* name to a value; the "geometry" value is a point record.                *)

Abs(n) == IF n < 0 THEN 0 - n ELSE n

Range(f) == {f[i] : i \in DOMAIN f}

\* repr of a float, as DataFrame.to_csv writes it
FloatStr(v) ==
    (IF v < 0 THEN "-" ELSE "") \o NatStr(Abs(v) \div 10) \o "." \o DigitChar(Abs(v) % 10)

\* str(time_slice) of a numpy datetime64[ns]
TimeStr(t) == Strftime(t) \o "000"

NaN == "nan"

\* table[name] = value for every row; a new column goes last
AddColumn(table, name, value) ==
    [columns |-> IF name \in Range(table.columns) THEN table.columns
                 ELSE Append(table.columns, name),
     rows |-> [i \in 1..Len(table.rows) |->
                  [c \in DOMAIN table.rows[i] \cup {name} |->
                      IF c = name THEN value ELSE table.rows[i][c]]]]

\* for time_slice in time_slices: point_depths[str(time_slice)] = pd.Series(dtype='float32')
RECURSIVE AddTimeColumns(_, _)
AddTimeColumns(table, times) ==
    IF Len(times) = 0 THEN table
    ELSE AddTimeColumns(AddColumn(table, TimeStr(Head(times)), NaN), Tail(times))

\* faulty variant of the nearest lookup: the last coordinate not above the value
\* (a floor lookup), the least coordinate when there is none
NearestIndexPad(coords, v) ==
    LET before == {i \in 1..Len(coords) : coords[i] <= v}
    IN  IF before = {} THEN CHOOSE i \in 1..Len(coords) : \A j \in 1..Len(coords) : coords[i] <= coords[j]
        ELSE CHOOSE i \in before : \A j \in before : coords[i] >= coords[j]

\* Index.get_indexer(method="nearest") on a monotonic coordinate: the
\* position at the least distance, the larger coordinate on a tie
NearestIndex(coords, v) ==
    CHOOSE i \in 1..Len(coords) :
        \A j \in 1..Len(coords) :
            \/ Abs(coords[i] - v) < Abs(coords[j] - v)
            \/ (Abs(coords[i] - v) = Abs(coords[j] - v) /\ coords[i] >= coords[j])

\* faulty variant of the per-point function: x and y always taken from the cell
SinglePointAlwaysSnapped(row, mo, lock) ==
    LET ix == NearestIndex(mo.xx_P0, row["geometry"].x)
        iy == NearestIndex(mo.yy_P0, row["geometry"].y)
        keys == {TimeStr(mo.time[k]) : k \in 1..Len(mo.time)}
        slice(c) == CHOOSE k \in 1..Len(mo.time) :
                       /\ TimeStr(mo.time[k]) = c
                       /\ \A j \in 1..Len(mo.time) : TimeStr(mo.time[j]) = c => j <= k
    IN  [c \in DOMAIN row |->
            IF c = "geometry"
            THEN [x |-> mo.xx_P0[ix], y |-> mo.yy_P0[iy], z |-> mo.zb_P0[iy][ix]]
            ELSE IF c \in keys THEN mo.h_P0[slice(c)][iy][ix] ELSE row[c]]

\* extract_depths_for_single_point
extract_depths_for_single_point(row, mo, lock) ==
    LET \* model_output.sel(xx_P0=..., yy_P0=..., method="nearest")
        ix == NearestIndex(mo.xx_P0, row["geometry"].x)
        iy == NearestIndex(mo.yy_P0, row["geometry"].y)
        \* depths_for_times: one key per str(time_slice), the last slice wins
        keys == {TimeStr(mo.time[k]) : k \in 1..Len(mo.time)}
        slice(c) == CHOOSE k \in 1..Len(mo.time) :
                       /\ TimeStr(mo.time[k]) = c
                       /\ \A j \in 1..Len(mo.time) : TimeStr(mo.time[j]) = c => j <= k
        x == IF lock THEN mo.xx_P0[ix] ELSE row["geometry"].x
        y == IF lock THEN mo.yy_P0[iy] ELSE row["geometry"].y
        z == mo.zb_P0[iy][ix]
    IN  \* row.update(depths_for_times): only labels the row has are set
        [c \in DOMAIN row |->
            IF c = "geometry" THEN [x |-> x, y |-> y, z |-> z]
            ELSE IF c \in keys THEN mo.h_P0[slice(c)][iy][ix] ELSE row[c]]

\* the column extract_depths_for_points drops
EpochColumn == "2000-01-01T00:00:00.000000000"

\* DataFrame.drop([name], axis=1)
DropColumn(table, name) ==
    [columns |-> SelectSeq(table.columns, LAMBDA c : c # name),
     rows |-> [i \in 1..Len(table.rows) |->
                  [c \in DOMAIN table.rows[i] \ {name} |-> table.rows[i][c]]]]

\* faulty variant of the CRS assertions: only the axis unit is looked at
CrsAcceptedUnitOnly(origin_crs, gdf_crs) ==
    \A k \in 1..Len(origin_crs.axis_units) : origin_crs.axis_units[k] = "metre"

\* the two assertions of transform_gdf_to_unreal_coordinates
CrsAccepted(origin_crs, gdf_crs) ==
    /\ origin_crs = gdf_crs
    /\ \A k \in 1..Len(origin_crs.axis_units) : origin_crs.axis_units[k] = "metre"

\* faulty variant of the re-centring: the x axis is mirrored instead of the y axis
TranslateScaleFlipX(p, origin) ==
    [x |-> (-1) * (p.x + (0 - origin.x)), y |-> p.y + (0 - origin.y), z |-> p.z]

\* geometry.translate(xoff, yoff) then geometry.scale(yfact=-1, origin=(0, 0))
TranslateScale(p, origin) ==
    LET xoff == 0 - origin.x
        yoff == 0 - origin.y
        translated == [x |-> p.x + xoff, y |-> p.y + yoff, z |-> p.z]
    IN  [x |-> translated.x, y |-> (-1) * translated.y, z |-> translated.z]

\* gdf.geometry = new_geometry
TransformTable(table, origin) ==
    [columns |-> table.columns,
     rows |-> [i \in 1..Len(table.rows) |->
                  [table.rows[i] EXCEPT !["geometry"] = TranslateScale(@, origin)]]]

\* gauge_depths["x"] = gauge_depths.geometry.x, likewise y and z
WithCoordinateColumns(table) ==
    LET cols1 == IF "x" \in Range(table.columns) THEN table.columns ELSE Append(table.columns, "x")
        cols2 == IF "y" \in Range(cols1) THEN cols1 ELSE Append(cols1, "y")
        cols3 == IF "z" \in Range(cols2) THEN cols2 ELSE Append(cols2, "z")
    IN  [columns |-> cols3,
         rows |-> [i \in 1..Len(table.rows) |->
                      [c \in DOMAIN table.rows[i] \cup {"x", "y", "z"} |->
                          IF c = "x" THEN table.rows[i]["geometry"].x
                          ELSE IF c = "y" THEN table.rows[i]["geometry"].y
                          ELSE IF c = "z" THEN table.rows[i]["geometry"].z
                          ELSE table.rows[i][c]]]]

\* columns.insert(0, columns.pop(columns.index(name)))
MoveToFront(columns, name) == <<name>> \o SelectSeq(columns, LAMBDA c : c # name)

\* the attribute columns of the points file hold text
IsTextColumn(c) == c \in Range(gauge_points.columns) \ {"geometry"}

\* DataFrame.to_csv(out_file_path, index=False)
ToCsv(table) ==
    <<CsvWriteRow(table.columns)>>
      \o [i \in 1..Len(table.rows) |->
             CsvWriteRow([k \in 1..Len(table.columns) |->
                 IF IsTextColumn(table.columns[k]) THEN table.rows[i][table.columns[k]]
                 ELSE FloatStr(table.rows[i][table.columns[k]])])]

\* export_to_csv: the lines of the file it writes
export_to_csv(table) ==
    LET with_xyz == WithCoordinateColumns(table)
        columns == MoveToFront(MoveToFront(MoveToFront(with_xyz.columns, "z"), "y"), "x")
        reordered == [columns |-> columns, rows |-> with_xyz.rows]
    IN  ToCsv(DropColumn(reordered, "geometry"))

----------------------------------------------------------------------------
(* Inputs of the sampling script                                           *)

T0 == DateTime(2000, 1, 1, 0, 0, 0, 0)
T1 == DateTime(2000, 1, 1, 1, 0, 0, 0)
T2 == DateTime(2010, 6, 1, 0, 0, 0, 0)

\* time axes of the flood model output, in the dataset's order
TimeAxes == {<<T0, T1>>, <<T0, T1, T2>>, <<T1, T2>>}

\* a 3 x 3 raster, y descending, every cell and time slice a different value
RasterA(times) ==
    [xx_P0 |-> <<0, 100, 200>>,
     yy_P0 |-> <<200, 100, 0>>,
     time |-> times,
     h_P0 |-> [k \in 1..Len(times) |->
                  [iy \in 1..3 |-> [ix \in 1..3 |-> k * 1000 + iy * 100 + ix * 10 + 5]]],
     zb_P0 |-> [iy \in 1..3 |-> [ix \in 1..3 |-> 5000 + iy * 30 + ix * 7]]]

\* a 2 x 2 raster, y ascending, two time slices: cell (0, 0) holds 1.0 and
\* 2.0, cell (10, 10) holds 3.0 and 4.0
RasterB ==
    [xx_P0 |-> <<0, 100>>,
     yy_P0 |-> <<0, 100>>,
     time |-> <<T0, T1>>,
     h_P0 |-> <<  << <<10, 70>>, <<50, 30>> >>,  << <<20, 80>>, <<60, 40>> >>  >>,
     zb_P0 |-> << <<11, 12>>, <<13, 14>> >>]

ModelOutputs == {RasterA(times) : times \in TimeAxes} \cup {RasterB}

\* query locations: inside a cell, half way between two columns, outside
\* the raster on two sides
QueryLocations ==
    {[x |-> 10, y |-> 10], [x |-> 50, y |-> 140], [x |-> -70, y |-> 300],
     [x |-> 260, y |-> 55]}

\* points files without and with an attribute column of their own
GaugePointTables ==
    {[columns |-> <<"geometry">>,
      rows |-> [i \in 1..Len(ps) |-> [c \in {"geometry"} |-> ps[i]]]]
        : ps \in SeqsUpTo(QueryLocations, MaxPoints) \ {<<>>}}
    \cup
    {[columns |-> <<"name", "geometry">>,
      rows |-> [i \in 1..Len(ps) |->
                  [c \in {"name", "geometry"} |->
                      IF c = "geometry" THEN ps[i] ELSE "gauge" \o NatStr(i)]]]
        : ps \in SeqsUpTo(QueryLocations, MaxPoints) \ {<<>>}}

NZTM == [name |-> "EPSG:2193", axis_units |-> <<"metre", "metre">>]
UTM59S == [name |-> "EPSG:32759", axis_units |-> <<"metre", "metre">>]
WGS84 == [name |-> "EPSG:4326", axis_units |-> <<"degree", "degree">>]

\* (CRS of the points, CRS of the level bounds)
CrsPairs == {<<NZTM, NZTM>>, <<NZTM, UTM59S>>, <<WGS84, WGS84>>, <<WGS84, NZTM>>}

Origins == {[x |-> 100, y |-> 50], [x |-> -30, y |-> 120]}

WaterInit ==
    /\ pc = "main"
    /\ error = ""
    /\ LOCK_TO_GRID \in BOOLEAN
    /\ gauge_points \in GaugePointTables
    /\ \E pair \in CrsPairs : points_crs = pair[1] /\ bounds_crs = pair[2]
    /\ model_output \in ModelOutputs
    /\ unreal_origin_location \in Origins
    /\ point_depths = NoTable
    /\ sampled = 0
    /\ gauge_depths = NoTable
    /\ gauge_depths_unreal = NoTable
    /\ out_csv = NoFile
    /\ band_indices = <<>>
    /\ reference_datetime = DefaultReference
    /\ time_columns = <<>>
    /\ NiwaIdle
    /\ SpawnIdle

----------------------------------------------------------------------------
(* main of create_water_csv.py                                             *)

\* extract_depths_for_points: the copy and the empty time columns
PrepareColumns ==
    /\ pc = "main"
    /\ point_depths' = AddTimeColumns(gauge_points, model_output.time)
    /\ sampled' = 0
    /\ pc' = "sampling"
    /\ UNCHANGED <<error, waterInputs, gauge_depths, gauge_depths_unreal, out_csv,
                   niwaVars, stampVars, spawnVars>>

\* point_depths.apply(...): the per-point function on the next row
SamplePoint ==
    /\ pc = "sampling"
    /\ sampled < Len(point_depths.rows)
    /\ point_depths' =
           [point_depths EXCEPT !.rows[sampled + 1] =
               extract_depths_for_single_point(@, model_output, LOCK_TO_GRID)]
    /\ sampled' = sampled + 1
    /\ UNCHANGED <<pc, error, waterInputs, gauge_depths, gauge_depths_unreal, out_csv,
                   niwaVars, stampVars, spawnVars>>

\* point_depths.drop(["2000-01-01T00:00:00.000000000"], axis=1, inplace=True)
\* and the return to main
DropEpochColumn ==
    /\ pc = "sampling"
    /\ sampled = Len(point_depths.rows)
    /\ EpochColumn \in Range(point_depths.columns)
    /\ point_depths' = DropColumn(point_depths, EpochColumn)
    /\ gauge_depths' = point_depths'
    /\ pc' = "extracted"
    /\ UNCHANGED <<error, waterInputs, sampled, gauge_depths_unreal, out_csv,
                   niwaVars, stampVars, spawnVars>>

\* the drop raises when the dataset has no slice at that instant
DropMissingColumn ==
    /\ pc = "sampling"
    /\ sampled = Len(point_depths.rows)
    /\ EpochColumn \notin Range(point_depths.columns)
    /\ pc' = "failed"
    /\ error' = "KeyError"
    /\ UNCHANGED <<waterVars, niwaVars, stampVars, spawnVars>>

\* assert unreal_origin_location.crs == gdf.crs, assert all(... == "metre" ...)
TransformRejected ==
    /\ pc = "extracted"
    /\ ~CrsAccepted(bounds_crs, points_crs)
    /\ pc' = "failed"
    /\ error' = "AssertionError"
    /\ UNCHANGED <<waterVars, niwaVars, stampVars, spawnVars>>

\* transform_gdf_to_unreal_coordinates
Transform ==
    /\ pc = "extracted"
    /\ CrsAccepted(bounds_crs, points_crs)
    /\ gauge_depths_unreal' = TransformTable(gauge_depths, unreal_origin_location)
    /\ pc' = "transformed"
    /\ UNCHANGED <<error, waterInputs, point_depths, sampled, gauge_depths, out_csv,
                   niwaVars, stampVars, spawnVars>>

\* export_to_csv(gauge_depths_unreal, WATER_SOURCES_OUTPUT_PATH)
Export ==
    /\ pc = "transformed"
    /\ out_csv' = [exists |-> TRUE, lines |-> export_to_csv(gauge_depths_unreal)]
    /\ pc' = "exported"
    /\ UNCHANGED <<error, waterInputs, point_depths, sampled, gauge_depths,
                   gauge_depths_unreal, niwaVars, stampVars, spawnVars>>

WaterNext ==
    \/ PrepareColumns
    \/ SamplePoint
    \/ DropEpochColumn
    \/ DropMissingColumn
    \/ TransformRejected
    \/ Transform
    \/ Export

SpecWater == WaterInit /\ [][WaterNext]_vars

----------------------------------------------------------------------------
(* spawn_water.py: read_water_sources_csv                                  *)

Z_TERRAIN_SCALE_FACTOR == 1

Z_TERRAIN_INTERCEPT == 0

\* text accepted by strptime(text, "%Y-%m-%dT%H:%M:%S.%f") with two-digit
\* month, day, hour, minute and second fields and 1 to 6 fraction digits
IsStrptimeText(s) ==
    /\ Len(s) \in 21..26
    /\ Char(s, 5) = "-" /\ Char(s, 8) = "-" /\ Char(s, 11) = "T"
    /\ Char(s, 14) = ":" /\ Char(s, 17) = ":" /\ Char(s, 20) = "."
    /\ \A i \in (1..Len(s)) \ {5, 8, 11, 14, 17, 20} : IsDigit(Char(s, i))
    /\ DigitsVal(SubSeq(s, 1, 4)) >= 1
    /\ DigitsVal(SubSeq(s, 6, 7)) \in 1..12
    /\ DigitsVal(SubSeq(s, 9, 10))
           \in 1..DaysInMonth(DigitsVal(SubSeq(s, 1, 4)), DigitsVal(SubSeq(s, 6, 7)))
    /\ DigitsVal(SubSeq(s, 12, 13)) \in 0..23
    /\ DigitsVal(SubSeq(s, 15, 16)) \in 0..59
    /\ DigitsVal(SubSeq(s, 18, 19)) \in 0..61

RECURSIVE PadRight(_, _)
PadRight(s, width) == IF Len(s) >= width THEN s ELSE PadRight(s \o "0", width)

Strptime(s) ==
    DateTime(DigitsVal(SubSeq(s, 1, 4)), DigitsVal(SubSeq(s, 6, 7)),
             DigitsVal(SubSeq(s, 9, 10)), DigitsVal(SubSeq(s, 12, 13)),
             DigitsVal(SubSeq(s, 15, 16)), DigitsVal(SubSeq(s, 18, 19)),
             DigitsVal(PadRight(SubSeq(s, 21, Len(s)), 6)))

\* time_column[:-3]
DropLast3(s) == SubSeq(s, 1, Len(s) - 3)

\* the exception raised while one data row is turned into a WaterSource,
\* "" when there is none: the unpacking, then float(x), float(y), float(z),
\* then entry by entry time_columns[i] before float(depth_m)
RECURSIVE DepthError(_, _, _)
DepthError(zt, times, i) ==
    IF i > Len(zt) THEN ""
    ELSE IF i > Len(times) THEN "IndexError"
    ELSE IF ~IsFloatText(zt[i]) THEN "ValueError"
    ELSE DepthError(zt, times, i + 1)

RowError(row, times) ==
    IF Len(row) < 3 THEN "ValueError"
    ELSE IF \E k \in 1..3 : ~IsFloatText(row[k]) THEN "ValueError"
    ELSE DepthError(SubSeq(row, 4, Len(row)), times, 1)

\* WaterSource(Vector(...), depth_array=[...]) of one data row
WaterSourceOf(row, times) ==
    LET zt == SubSeq(row, 4, Len(row))
    IN  [location |-> [x |-> ParseFloat(row[1]) * 100,
                       y |-> ParseFloat(row[2]) * 100,
                       z |-> ParseFloat(row[3]) * Z_TERRAIN_SCALE_FACTOR
                               + Z_TERRAIN_INTERCEPT],
         depth_array |-> [i \in 1..Len(zt) |->
                             [timestamp |-> times[i], depth |-> ParseFloat(zt[i]) * 100]]]

HeaderTimeColumns(line) == SubSeq(CsvReadRow(line), 4, Len(CsvReadRow(line)))

\* next(csv_reader) on an empty file
SpawnEmptyFile ==
    /\ pc = "read_header"
    /\ Len(spawn_csv) = 0
    /\ pc' = "failed"
    /\ error' = "StopIteration"
    /\ UNCHANGED <<spawnVars, niwaVars, stampVars, waterVars>>

\* the header has fewer than 3 fields, or a time column strptime rejects
SpawnBadHeader ==
    /\ pc = "read_header"
    /\ Len(spawn_csv) > 0
    /\ \/ Len(CsvReadRow(spawn_csv[1])) < 3
       \/ \E k \in 1..Len(HeaderTimeColumns(spawn_csv[1])) :
              ~IsStrptimeText(DropLast3(HeaderTimeColumns(spawn_csv[1])[k]))
    /\ pc' = "failed"
    /\ error' = "ValueError"
    /\ UNCHANGED <<spawnVars, niwaVars, stampVars, waterVars>>

\* _xc, _yc, _zc, *time_columns = next(csv_reader) and the strptime of each
SpawnReadHeader ==
    /\ pc = "read_header"
    /\ Len(spawn_csv) > 0
    /\ Len(CsvReadRow(spawn_csv[1])) >= 3
    /\ \A k \in 1..Len(HeaderTimeColumns(spawn_csv[1])) :
           IsStrptimeText(DropLast3(HeaderTimeColumns(spawn_csv[1])[k]))
    /\ spawn_times' = [k \in 1..Len(HeaderTimeColumns(spawn_csv[1])) |->
                          Strptime(DropLast3(HeaderTimeColumns(spawn_csv[1])[k]))]
    /\ rows_read' = 0
    /\ pc' = "read_rows"
    /\ UNCHANGED <<error, spawn_csv, water_sources, niwaVars, stampVars, waterVars>>

\* one turn of the loop over csv_reader that raises
SpawnRowFails ==
    /\ pc = "read_rows"
    /\ rows_read + 1 < Len(spawn_csv)
    /\ RowError(CsvReadRow(spawn_csv[rows_read + 2]), spawn_times) # ""
    /\ pc' = "failed"
    /\ error' = RowError(CsvReadRow(spawn_csv[rows_read + 2]), spawn_times)
    /\ UNCHANGED <<spawnVars, niwaVars, stampVars, waterVars>>

\* one turn of the loop over csv_reader: water_sources.append(WaterSource(...))
SpawnReadRow ==
    /\ pc = "read_rows"
    /\ rows_read + 1 < Len(spawn_csv)
    /\ RowError(CsvReadRow(spawn_csv[rows_read + 2]), spawn_times) = ""
    /\ water_sources' =
           Append(water_sources, WaterSourceOf(CsvReadRow(spawn_csv[rows_read + 2]), spawn_times))
    /\ rows_read' = rows_read + 1
    /\ UNCHANGED <<pc, error, spawn_csv, spawn_times, niwaVars, stampVars, waterVars>>

\* return water_sources
SpawnReturn ==
    /\ pc = "read_rows"
    /\ rows_read + 1 = Len(spawn_csv)
    /\ pc' = "returned"
    /\ UNCHANGED <<error, spawnVars, niwaVars, stampVars, waterVars>>

SpawnHeaderLines ==
    {"x,y,z,2000-01-01T01:00:00.000000000,2010-06-01T00:00:00.000000000",
     "x,y,z,2000-01-01T00:00:00.000000",
     "x,y,z,name,2000-01-01T01:00:00.000000000",
     "x,y,z",
     "x,y"}

SpawnDataLines ==
    {"1.5,-2.5,10.0,0.1,0.2", "3.0,4.0,5.0,0.3", "7.0,8.0,9.0,0.0,0.4,0.5", "",
     "1.0,abc,2.0,0.1,0.2"}

SpawnCsvFiles ==
    {<<>>} \cup {<<h>> \o rows : h \in SpawnHeaderLines,
                                rows \in SeqsUpTo(SpawnDataLines, MaxRows)}

SpawnInit ==
    /\ pc = "read_header"
    /\ error = ""
    /\ spawn_csv \in SpawnCsvFiles
    /\ spawn_times = <<>>
    /\ rows_read = 0
    /\ water_sources = <<>>
    /\ band_indices = <<>>
    /\ reference_datetime = DefaultReference
    /\ time_columns = <<>>
    /\ NiwaIdle
    /\ WaterIdle

SpawnNext ==
    \/ SpawnEmptyFile
    \/ SpawnBadHeader
    \/ SpawnReadHeader
    \/ SpawnRowFails
    \/ SpawnReadRow
    \/ SpawnReturn

SpecSpawn == SpawnInit /\ [][SpawnNext]_vars

----------------------------------------------------------------------------
(* Reading a timestamp back: used to state what the generator returns      *)

IsoShape(s) ==
    /\ Len(s) = 26
    /\ Char(s, 5) = "-" /\ Char(s, 8) = "-" /\ Char(s, 11) = "T"
    /\ Char(s, 14) = ":" /\ Char(s, 17) = ":" /\ Char(s, 20) = "."
    /\ \A i \in (1..26) \ {5, 8, 11, 14, 17, 20} : IsDigit(Char(s, i))

IsoFields(s) ==
    DateTime(DigitsVal(SubSeq(s, 1, 4)), DigitsVal(SubSeq(s, 6, 7)),
             DigitsVal(SubSeq(s, 9, 10)), DigitsVal(SubSeq(s, 12, 13)),
             DigitsVal(SubSeq(s, 15, 16)), DigitsVal(SubSeq(s, 18, 19)),
             DigitsVal(SubSeq(s, 21, 26)))

ValidDateTime(dt) ==
    /\ dt.month \in 1..12
    /\ dt.day \in 1..DaysInMonth(dt.year, dt.month)
    /\ dt.hour \in 0..23 /\ dt.minute \in 0..59 /\ dt.second \in 0..59

HourCount(dt) == Ymd2Ord(dt.year, dt.month, dt.day) * 24 + dt.hour

\* text s is the ISO-8601 text of reference + hours
IsIsoOfOffset(s, reference, hours) ==
    /\ IsoShape(s)
    /\ LET dt == IsoFields(s)
       IN  /\ ValidDateTime(dt)
           /\ HourCount(dt) = HourCount(reference) + hours
           /\ dt.minute = reference.minute
           /\ dt.second = reference.second
           /\ dt.microsecond = reference.microsecond

(* C1: generate_time_stamps_from_band_indices returns a list of the same   *)
(* length and order as its argument whose i-th element is the ISO-8601     *)
(* text of reference_datetime + (band_index_i - 1) hours; with the default *)
(* epoch band index 1 yields "2000-01-01T00:00:00.000000" and band index   *)
(* 25 the epoch plus 24 hours.                                             *)
C1_TimeStamps ==
    pc = "returned" =>
        /\ Len(time_columns) = Len(band_indices)
        /\ \A i \in 1..Len(band_indices) :
              /\ IsIsoOfOffset(time_columns[i], reference_datetime, band_indices[i] - 1)
              /\ (reference_datetime = DefaultReference /\ band_indices[i] = 1)
                    => time_columns[i] = "2000-01-01T00:00:00.000000"
              /\ (reference_datetime = DefaultReference /\ band_indices[i] = 25)
                    => time_columns[i] = "2000-01-02T00:00:00.000000"

C1_Witness ==
    /\ pc = "returned"
    /\ reference_datetime = DefaultReference
    /\ band_indices = <<25, 1>>
    /\ time_columns = <<"2000-01-02T00:00:00.000000", "2000-01-01T00:00:00.000000">>

(* C2: after a successful add_timestamps_to_csv the header keeps its first *)
(* three column names, every band-index column from the 4th on is replaced *)
(* at its position by the timestamp derived from it, and the data rows are *)
(* unchanged: as many rows, in the same order, with the same fields.       *)
C2_HeaderRetrofit ==
    pc = "done" =>
        LET inh == CsvReadRow(original[1])
            outh == CsvReadRow(csv_file[1])
        IN  /\ Len(csv_file) = Len(original)
            /\ Len(outh) = Len(inh)
            /\ \A k \in 1..3 : outh[k] = inh[k]
            /\ \A k \in 4..Len(inh) :
                   IsIsoOfOffset(outh[k], DefaultReference, ParseInt(inh[k]) - 1)
            /\ \A i \in 2..Len(original) :
                   CsvReadRow(csv_file[i]) = CsvReadRow(original[i])

C2_Witness ==
    /\ pc = "done"
    /\ original = <<"x,y,z,1,2", "1.5,-2.5,10.0,0.1,0.2", "3.0,4.0,5.0,0.3">>
    /\ csv_file[1] = "x,y,z,2000-01-01T00:00:00.000000,2000-01-01T01:00:00.000000"
    /\ csv_file[3] = "3.0,4.0,5.0,0.3"

\* the table add_timestamps_to_csv writes when it runs to its end
RewrittenTable ==
    <<CsvWriteRow(new_header)>>
      \o [i \in 1..Len(remaining_data) |-> CsvWriteRow(remaining_data[i])]

(* C9: in every state during or after a run of add_timestamps_to_csv       *)
(* (an abort between opening the file for writing and the last row         *)
(* included) the file on disk is the complete original table or the        *)
(* complete rewritten table, and an input failure leaves the original.     *)
C9_NoPartialCsv ==
    /\ \/ csv_file = original
       \/ /\ pc \in {"opened", "writing", "done", "aborted"}
          /\ csv_file = RewrittenTable
    /\ error \in {"ValueError", "StopIteration"} => csv_file = original

----------------------------------------------------------------------------
(* Statements about the sampling script                                    *)

Cells(mo) == (1..Len(mo.yy_P0)) \X (1..Len(mo.xx_P0))

\* squared Euclidean distance from location q to the centre of cell c
Dist2(mo, c, q) ==
    (mo.xx_P0[c[2]] - q.x) * (mo.xx_P0[c[2]] - q.x)
      + (mo.yy_P0[c[1]] - q.y) * (mo.yy_P0[c[1]] - q.y)

\* the cells whose centre is nearest to q
NearestCells(mo, q) ==
    {c \in Cells(mo) : \A d \in Cells(mo) : Dist2(mo, c, q) <= Dist2(mo, d, q)}

\* the time-series columns of a table, in the table's order
SeriesColumns(table) ==
    SelectSeq(table.columns,
              LAMBDA c : \E k \in 1..Len(model_output.time) : c = TimeStr(model_output.time[k]))

TimeLabels == [k \in 1..Len(model_output.time) |-> TimeStr(model_output.time[k])]

(* C3: transform_gdf_to_unreal_coordinates outputs, at the same position,  *)
(* for every input point p and origin o the point x = p.x - o.x,           *)
(* y = -(p.y - o.y), z = p.z; as many points as the input, in its order.   *)
C3_Normalized ==
    pc \in {"transformed", "exported"} =>
        /\ Len(gauge_depths_unreal.rows) = Len(gauge_depths.rows)
        /\ gauge_depths_unreal.columns = gauge_depths.columns
        /\ \A i \in 1..Len(gauge_depths.rows) :
              LET p == gauge_depths.rows[i]["geometry"]
                  n == gauge_depths_unreal.rows[i]["geometry"]
              IN  /\ n.x = p.x - unreal_origin_location.x
                  /\ n.y = 0 - (p.y - unreal_origin_location.y)
                  /\ n.z = p.z
                  /\ \A c \in DOMAIN gauge_depths.rows[i] \ {"geometry"} :
                        gauge_depths_unreal.rows[i][c] = gauge_depths.rows[i][c]

C3_Witness ==
    /\ pc = "transformed"
    /\ Len(gauge_depths.rows) = 2
    /\ gauge_depths.rows[1]["geometry"] # gauge_depths.rows[2]["geometry"]
    /\ unreal_origin_location = [x |-> -30, y |-> 120]
    /\ gauge_depths.rows[2]["geometry"].x = 260
    /\ gauge_depths_unreal.rows[2]["geometry"].x = 290
    /\ gauge_depths_unreal.rows[2]["geometry"].y = 65

\* the CRS of the points and of the origin differ, or one is not in metres
CrsMismatch ==
    \/ points_crs # bounds_crs
    \/ \E k \in 1..Len(points_crs.axis_units) : points_crs.axis_units[k] # "metre"
    \/ \E k \in 1..Len(bounds_crs.axis_units) : bounds_crs.axis_units[k] # "metre"

C5_OneEntryPerTimeStep ==
    /\ error # "KeyError"
    /\ pc = "extracted" =>
          /\ SeriesColumns(gauge_depths) = TimeLabels
          /\ \A i \in 1..Len(gauge_depths.rows) :
                \A k \in 1..Len(TimeLabels) : TimeLabels[k] \in DOMAIN gauge_depths.rows[i]

(* C6: for every query point and time step the sampled depth is the value  *)
(* the field stores at one grid cell whose centre is nearest to the point, *)
(* the same cell for every time step of the point; a point outside the     *)
(* raster takes the nearest edge cell and is sampled like any other.       *)
C6_NearestCell ==
    pc \in {"sampling", "extracted", "transformed", "exported"} =>
        LET labels == TimeLabels
        IN  \A i \in 1..sampled :
                LET row == point_depths.rows[i]
                    q == gauge_points.rows[i]["geometry"]
                    present == {k \in 1..Len(labels) : labels[k] \in DOMAIN row}
                IN  /\ pc = "sampling" => present = 1..Len(labels)
                    /\ \E c \in NearestCells(model_output, q) :
                          \A k \in present :
                              row[labels[k]] = model_output.h_P0[k][c[1]][c[2]]

C6_Witness ==
    /\ pc = "sampling"
    /\ sampled = 1
    /\ model_output = RasterA(<<T0, T1>>)
    /\ gauge_points.rows[1]["geometry"] = [x |-> -70, y |-> 300]
    /\ point_depths.rows[1][TimeStr(T0)] = 1115
    /\ point_depths.rows[1][TimeStr(T1)] = 2115

\* the first three fields of a data line of the exported file, read back
ReadCoordinates(line) ==
    [x |-> ParseFloat(CsvReadRow(line)[1]), y |-> ParseFloat(CsvReadRow(line)[2]),
     z |-> ParseFloat(CsvReadRow(line)[3])]

(* C7: with snap-to-grid enabled a returned point's (x, y) are the centre  *)
(* of the cell it matched, with it disabled the query coordinates; in both *)
(* modes z is the terrain elevation of that cell.  A table sampled with    *)
(* snap-to-grid, exported and parsed again gives the cell centres; the     *)
(* file main writes gives those coordinates re-centred.                    *)
C7_SnapToGrid ==
    /\ pc = "sampling" =>
          \A i \in 1..sampled :
              LET row == point_depths.rows[i]
                  q == gauge_points.rows[i]["geometry"]
                  first == row[TimeStr(model_output.time[1])]
                  \* the cell the depths of the row were read from
                  matched == {c \in Cells(model_output) :
                                 first = model_output.h_P0[1][c[1]][c[2]]}
              IN  /\ Cardinality(matched) = 1
                  /\ \A c \in matched :
                        /\ row["geometry"].z = model_output.zb_P0[c[1]][c[2]]
                        /\ LOCK_TO_GRID =>
                              /\ row["geometry"].x = model_output.xx_P0[c[2]]
                              /\ row["geometry"].y = model_output.yy_P0[c[1]]
                        /\ ~LOCK_TO_GRID =>
                              /\ row["geometry"].x = q.x
                              /\ row["geometry"].y = q.y
    /\ pc = "extracted" =>
          LET lines == export_to_csv(gauge_depths)
          IN  \A i \in 1..Len(gauge_depths.rows) :
                  LET read == ReadCoordinates(lines[i + 1])
                  IN  /\ read = gauge_depths.rows[i]["geometry"]
                      /\ LOCK_TO_GRID =>
                            \E c \in NearestCells(model_output,
                                                  gauge_points.rows[i]["geometry"]) :
                                read = [x |-> model_output.xx_P0[c[2]],
                                        y |-> model_output.yy_P0[c[1]],
                                        z |-> model_output.zb_P0[c[1]][c[2]]]
    /\ pc = "exported" =>
          \A i \in 1..Len(gauge_depths.rows) :
              ReadCoordinates(out_csv.lines[i + 1])
                  = TranslateScale(gauge_depths.rows[i]["geometry"], unreal_origin_location)

C7_Witness ==
    /\ pc = "exported"
    /\ LOCK_TO_GRID
    /\ model_output = RasterB
    /\ gauge_points.rows[1]["geometry"] = [x |-> 10, y |-> 10]
    /\ gauge_depths.rows[1]["geometry"] = [x |-> 0, y |-> 0, z |-> 11]
    /\ unreal_origin_location = [x |-> 100, y |-> 50]
    /\ ReadCoordinates(out_csv.lines[2]) = [x |-> -100, y |-> 50, z |-> 11]

(* C8: the CSV export_to_csv writes has the header x, y, z followed by the *)
(* time-series columns in their time order and by nothing else, also when  *)
(* the input points carried attribute columns, and one data row per point. *)
C8_HeaderShape ==
    pc = "exported" =>
        /\ CsvReadRow(out_csv.lines[1])
               = <<"x", "y", "z">> \o SeriesColumns(gauge_depths_unreal)
        /\ Len(out_csv.lines) = 1 + Len(gauge_depths_unreal.rows)
        /\ \A i \in 1..Len(gauge_depths_unreal.rows) :
              Len(CsvReadRow(out_csv.lines[i + 1]))
                  = 3 + Len(SeriesColumns(gauge_depths_unreal))

(* C10: read_water_sources_csv does not silently truncate a malformed      *)
(* table: it returns only when every data row has as many fields as the    *)
(* header, and no WaterSource it builds has fewer or more depth entries    *)
(* than the header has time columns.                                       *)
C10_MalformedRowRejected ==
    /\ pc = "returned" =>
          \A i \in 2..Len(spawn_csv) :
              Len(CsvReadRow(spawn_csv[i])) = Len(CsvReadRow(spawn_csv[1]))
    /\ pc \in {"read_rows", "returned"} =>
          \A i \in 1..Len(water_sources) :
              Len(water_sources[i].depth_array) = Len(spawn_times)

====
